---- MODULE Spec2Model ----
(***************************************************************************)
(* State-machine model of the air_quality_sensor repository.               *)
(*                                                                         *)
(* Part 1: simple_mqtt_broker.py, class SimpleMQTTBroker.  One handler     *)
(* task per accepted connection runs handle_client; the tasks share        *)
(* self.clients, self.subscriptions and self.message_count and are         *)
(* interleaved by the asyncio event loop at their await points only        *)
(* (reader.read, writer.drain, writer.wait_closed).  An action of the      *)
(* model is the code a handler runs between two await points.              *)
(*                                                                         *)
(* Part 2: buzzer_controller.py, the alerter: the on_message callback and  *)
(* the Timer threads of trigger_buzzer_for, over the globals alarm_active  *)
(* and last_triggered_time.                                                *)
(*                                                                         *)
(* Part 3: data_collector.py, class DataCollector: on_message and          *)
(* buffer_manager_thread over self.data_buffer.                            *)
(***************************************************************************)
EXTENDS Integers, Sequences, FiniteSets, TLC

(***************************************************************************)
(* Bounds of the model.                                                    *)
(***************************************************************************)
\* Spec: packets dispatched by all handlers together, connections accepted
MaxPackets == 6
MaxAccepts == 3
\* SpecWire: the same, for the runs over the malformed and boundary inputs
MaxWirePackets == 3
MaxWireAccepts == 2
\* SpecRace: the same, for the runs of two subscribers and a third session
MaxRacePackets == 6
MaxRaceAccepts == 3
\* SpecOrder: the same, for the runs of one subscriber and one publisher
MaxOrderPackets == 5
MaxOrderAccepts == 2
\* SpecLive: the same, for the runs in which peers close their end
MaxLivePackets == 4
MaxLiveAccepts == 2
\* SpecBusy: the same, for the runs of three sessions around a fan-out
MaxBusyPackets == 4
MaxBusyAccepts == 3

(***************************************************************************)
(* Connection identifiers: client_id = "ip:port" of the peer.  An          *)
(* identifier is free again once the connection that had it is closed.     *)
(***************************************************************************)
IdOrder == <<"c1", "c2", "c3">>
Ids == {IdOrder[i] : i \in 1..Len(IdOrder)}
NoId == "-"

(***************************************************************************)
(* Bytes, slices, struct and UTF-8.                                        *)
(***************************************************************************)
Min(a, b) == IF a < b THEN a ELSE b

\* Python's s[lo:hi] on a bytes object (0-based, hi exclusive, clipped)
Slice(s, lo, hi) == SubSeq(s, lo + 1, Min(hi, Len(s)))

\* Python's s[lo:]
SliceFrom(s, lo) == SubSeq(s, lo + 1, Len(s))

\* struct.unpack('>H', b)[0]: raises struct.error unless b has 2 bytes
UnpackOk(b) == Len(b) = 2
Unpack(b) == (b[1] * 256) + b[2]

\* struct.pack('>H', n)
Pack(n) == <<(n \div 256) % 256, n % 256>>

IsCont(b) == b \in 128..191

Utf8Error == [ok |-> FALSE, str |-> <<>>]

Utf8Cons(cp, rest) == IF rest.ok THEN [ok |-> TRUE, str |-> <<cp>> \o rest.str]
                      ELSE Utf8Error

\* bytes.decode('utf-8') (strict): the code points, or UnicodeDecodeError
RECURSIVE Utf8Decode(_)
Utf8Decode(b) ==
  IF b = <<>> THEN [ok |-> TRUE, str |-> <<>>]
  ELSE LET b1 == b[1]
           n == Len(b)
       IN IF b1 < 128 THEN Utf8Cons(b1, Utf8Decode(SliceFrom(b, 1)))
          ELSE IF b1 \in 194..223 /\ n >= 2 /\ IsCont(b[2])
            THEN Utf8Cons(((b1 - 192) * 64) + (b[2] - 128),
                          Utf8Decode(SliceFrom(b, 2)))
          ELSE IF /\ b1 \in 224..239 /\ n >= 3 /\ IsCont(b[2]) /\ IsCont(b[3])
                  /\ (b1 = 224 => b[2] >= 160)
                  /\ (b1 = 237 => b[2] <= 159)
            THEN Utf8Cons(((b1 - 224) * 4096) + ((b[2] - 128) * 64) + (b[3] - 128),
                          Utf8Decode(SliceFrom(b, 3)))
          ELSE IF /\ b1 \in 240..244 /\ n >= 4
                  /\ IsCont(b[2]) /\ IsCont(b[3]) /\ IsCont(b[4])
                  /\ (b1 = 240 => b[2] >= 144)
                  /\ (b1 = 244 => b[2] <= 143)
            THEN Utf8Cons(((b1 - 240) * 262144) + ((b[2] - 128) * 4096)
                            + ((b[3] - 128) * 64) + (b[4] - 128),
                          Utf8Decode(SliceFrom(b, 4)))
          ELSE Utf8Error

\* str.encode('utf-8') of one code point
Utf8EncodeChar(cp) ==
  IF cp < 128 THEN <<cp>>
  ELSE IF cp < 2048 THEN <<192 + (cp \div 64), 128 + (cp % 64)>>
  ELSE IF cp < 65536
    THEN <<224 + (cp \div 4096), 128 + ((cp \div 64) % 64), 128 + (cp % 64)>>
  ELSE <<240 + (cp \div 262144), 128 + ((cp \div 4096) % 64),
         128 + ((cp \div 64) % 64), 128 + (cp % 64)>>

\* str.encode('utf-8')
RECURSIVE Utf8Encode(_)
Utf8Encode(s) == IF s = <<>> THEN <<>>
                 ELSE Utf8EncodeChar(s[1]) \o Utf8Encode(Tail(s))

(***************************************************************************)
(* Packet types (high nibble of the first header byte) and the packets     *)
(* the broker writes.                                                      *)
(***************************************************************************)
CONNECT == 1
PUBLISH == 3
SUBSCRIBE == 8
PINGREQ == 12

\* packet_type = header[0] >> 4
PacketType(header) == header[1] \div 16

\* remaining_length = header[1]
RemainingLength(header) == header[2]

\* (mutant) a CONNACK that refuses the connection: return code 5
ConnackRefused == <<32, 2, 0, 5>>

\* connack = bytes([0x20, 0x02, 0x00, 0x00])
Connack == <<32, 2, 0, 0>>

\* (mutant) the high byte of the packet identifier is not shifted down
SubackUnshifted(packet_id) == <<144, 3, packet_id % 256, packet_id % 256, 0>>

\* suback = bytes([0x90, 0x03, (packet_id >> 8) & 0xFF, packet_id & 0xFF, 0x00])
Suback(packet_id) == <<144, 3, (packet_id \div 256) % 256, packet_id % 256, 0>>

\* (mutant) a PINGRESP with a non-zero remaining length
PingrespLong == <<208, 2>>

\* pingresp = bytes([0xD0, 0x00])
Pingresp == <<208, 0>>

\* remaining_length = len(variable_header) + len(payload)
PublishRemaining(topic, message) == 2 + Len(Utf8Encode(topic)) + Len(message)

\* bytes([remaining_length]) raises ValueError unless 0 <= remaining_length < 256
PublishEncodable(topic, message) == PublishRemaining(topic, message) < 256

\* (mutant) the outbound PUBLISH has its RETAIN flag set
PublishPacketRetained(topic, message) ==
  LET topic_bytes == Utf8Encode(topic)
      variable_header == Pack(Len(topic_bytes)) \o topic_bytes
  IN <<49>> \o <<Len(variable_header) + Len(message)>> \o variable_header
       \o message

\* packet = fixed_header + bytes([remaining_length]) + variable_header + payload
PublishPacket(topic, message) ==
  LET topic_bytes == Utf8Encode(topic)
      topic_len == Len(topic_bytes)
      fixed_header == <<48>>
      variable_header == Pack(topic_len) \o topic_bytes
      payload == message
      remaining_length == Len(variable_header) + Len(payload)
  IN fixed_header \o <<remaining_length>> \o variable_header \o payload

(***************************************************************************)
(* The PUBLISH and SUBSCRIBE bodies as handle_client decodes them.         *)
(***************************************************************************)
\* topic_len = struct.unpack('>H', data[0:2])[0]; topic = data[2:2+topic_len].decode()
\* message = data[2 + topic_len:]
DecodePublish(data) ==
  IF ~UnpackOk(Slice(data, 0, 2))
    THEN [ok |-> FALSE, topic |-> <<>>, message |-> <<>>]
    ELSE LET topic_len == Unpack(Slice(data, 0, 2))
             dec == Utf8Decode(Slice(data, 2, 2 + topic_len))
         IN IF ~dec.ok THEN [ok |-> FALSE, topic |-> <<>>, message |-> <<>>]
            ELSE [ok |-> TRUE, topic |-> dec.str,
                  message |-> SliceFrom(data, 2 + topic_len)]

\* packet_id = struct.unpack('>H', data[0:2])[0]
SubscribePacketIdOk(data) == UnpackOk(Slice(data, 0, 2))
SubscribePacketId(data) == Unpack(Slice(data, 0, 2))

\* topic_len = struct.unpack('>H', data[2:4])[0]; topic = data[4:4+topic_len].decode()
DecodeSubscribeTopic(data) ==
  IF ~UnpackOk(Slice(data, 2, 4)) THEN [ok |-> FALSE, topic |-> <<>>]
  ELSE LET topic_len == Unpack(Slice(data, 2, 4))
           dec == Utf8Decode(Slice(data, 4, 4 + topic_len))
       IN [ok |-> dec.ok, topic |-> dec.str]

(***************************************************************************)
(* self.clients and self.subscriptions.                                    *)
(***************************************************************************)
\* list.remove(x): removes the first occurrence of x
RECURSIVE RemoveFirst(_, _)
RemoveFirst(list, x) ==
  IF list = <<>> THEN <<>>
  ELSE IF list[1] = x THEN Tail(list)
  ELSE <<list[1]>> \o RemoveFirst(Tail(list), x)

\* x in list
Contains(list, x) == \E i \in 1..Len(list) : list[i] = x

Occurrences(list, x) == Cardinality({i \in 1..Len(list) : list[i] = x})

\* self.clients[client_id] = writer
Register(cl, client_id, writer) == (client_id :> writer) @@ cl

\* (mutant) the finally block leaves self.clients alone
UnregisterNever(cl, client_id) == cl

\* (mutant) the finally block clears self.clients
UnregisterEveryone(cl, client_id) == <<>>

\* if client_id in self.clients: del self.clients[client_id]
Unregister(cl, client_id) == [i \in (DOMAIN cl) \ {client_id} |-> cl[i]]

\* (mutant) the finally block empties every list it finds the identifier in
UnsubscribeEveryone(subs, client_id) ==
  [t \in DOMAIN subs |->
     IF Contains(subs[t], client_id) THEN <<>> ELSE subs[t]]

\* for topic in self.subscriptions:
\*     if client_id in self.subscriptions[topic]:
\*         self.subscriptions[topic].remove(client_id)
Unsubscribe(subs, client_id) ==
  [t \in DOMAIN subs |-> RemoveFirst(subs[t], client_id)]

\* (mutant) an identifier already in the list is not appended again
SubscribeOnce(subs, topic, client_id) ==
  IF topic \in DOMAIN subs
    THEN IF Contains(subs[topic], client_id) THEN subs
         ELSE [subs EXCEPT ![topic] = Append(@, client_id)]
    ELSE (topic :> <<client_id>>) @@ subs

\* if topic not in self.subscriptions: self.subscriptions[topic] = []
\* self.subscriptions[topic].append(client_id)
Subscribe(subs, topic, client_id) ==
  IF topic \in DOMAIN subs
    THEN [subs EXCEPT ![topic] = Append(@, client_id)]
    ELSE (topic :> <<client_id>>) @@ subs

\* The list iterator of "for client_id in self.subscriptions[topic]" holds the
\* index idx of the last item it returned and reads the live list.  Items whose
\* "if client_id in self.clients" fails are passed without an await, so the
\* loop runs on to the next registered item: its index, or 0 when the
\* iterator is exhausted first.
NextRegistered(list, idx, cl) ==
  LET later == {j \in (idx + 1)..Len(list) : list[j] \in DOMAIN cl}
  IN IF later = {} THEN 0
     ELSE CHOOSE j \in later : \A k \in later : j <= k

(***************************************************************************)
(* What a peer can make one pass of the read loop see: the result of       *)
(* reader.read(2) and of reader.read(remaining_length).  read(n) returns   *)
(* between 1 and n bytes, or nothing at end of stream.                     *)
(***************************************************************************)
TopicBytesA == <<97>>
TopicBytesE == <<195, 169>>
BadUtf8 == <<255>>
PayloadBytes == {<<1>>, <<123, 125>>}
LongPayload == [i \in 1..127 |-> 0]
PacketIds == {0, 7, 255, 256, 4660, 65535}

\* a well-formed PUBLISH with the given flag nibble
PublishInput(flags, tb, payload) ==
  [hdr |-> <<48 + flags, 2 + Len(tb) + Len(payload)>>,
   data |-> Pack(Len(tb)) \o tb \o payload]

\* a well-formed SUBSCRIBE with one topic filter and its requested QoS byte
SubscribeInput(pid, tb) ==
  [hdr |-> <<130, 5 + Len(tb)>>,
   data |-> Pack(pid) \o Pack(Len(tb)) \o tb \o <<0>>]

\* The inputs of Spec: peers that send CONNECT, SUBSCRIBE and PUBLISH on two
\* topics, one PUBLISH that does not decode, and that close their end.
Packets ==
  [ connect |-> { [hdr |-> <<16, 0>>, data |-> <<>>] },
    publish |-> { PublishInput(0, TopicBytesA, <<1>>),
                  PublishInput(0, TopicBytesE, <<1>>),
                  [hdr |-> <<48, 3>>, data |-> <<0, 1>> \o BadUtf8] },
    subscribe |-> { SubscribeInput(7, TopicBytesA) } ]

\* The inputs of SpecWire: bodies that are empty, garbage, cut short by the
\* read or longer than 127 bytes, packet identifiers at the ends of the range.
WirePackets ==
  [ connect |->
      { [hdr |-> <<16, 0>>, data |-> <<>>],
        \* garbage body, of which 3 of the 5 declared bytes are returned
        [hdr |-> <<31, 5>>, data |-> <<255, 0, 7>>] },
    publish |->
      {PublishInput(0, TopicBytesA, m) : m \in PayloadBytes}
      \cup { PublishInput(13, TopicBytesE, <<1>>),
             \* declared remaining length 130
             PublishInput(0, TopicBytesA, LongPayload),
             \* declared topic length 5, one topic byte in the body
             [hdr |-> <<48, 3>>, data |-> <<0, 5, 97>>],
             \* the body read returns 1 of the 4 declared bytes
             [hdr |-> <<48, 4>>, data |-> <<0>>],
             \* topic bytes that are not UTF-8
             [hdr |-> <<48, 3>>, data |-> <<0, 1>> \o BadUtf8] },
    subscribe |->
      {SubscribeInput(pid, TopicBytesA) : pid \in PacketIds}
      \cup { SubscribeInput(7, TopicBytesE),
             \* the body read returns 1 of the 6 declared bytes
             [hdr |-> <<130, 6>>, data |-> <<0>>],
             \* packet identifier and half a topic length
             [hdr |-> <<130, 3>>, data |-> <<0, 9, 0>>],
             \* topic filter that is not UTF-8
             [hdr |-> <<130, 6>>, data |-> <<0, 9, 0, 1>> \o BadUtf8 \o <<0>>] },
    pingreq |->
      { [hdr |-> <<192, 0>>, data |-> <<>>],
        \* declared remaining length 130, all 130 bytes returned
        [hdr |-> <<192, 130>>, data |-> <<0, 0, 0>> \o LongPayload] },
    \* DISCONNECT, UNSUBSCRIBE
    other |->
      { [hdr |-> <<224, 0>>, data |-> <<>>],
        [hdr |-> <<162, 5>>, data |-> <<0, 7, 0, 1, 97>>],
        \* the body read returns 2 of the 5 declared bytes
        [hdr |-> <<162, 5>>, data |-> <<0, 7>>] },
    short |-> { <<16>>, <<48>> } ]

\* what a specification lets the peers do
Broker == [ids |-> {IdOrder[1], IdOrder[2]}, packets |-> Packets,
           maxPackets |-> MaxPackets, maxAccepts |-> MaxAccepts]
Wire == [ids |-> {IdOrder[1], IdOrder[2]}, packets |-> WirePackets,
         maxPackets |-> MaxWirePackets, maxAccepts |-> MaxWireAccepts]

\* The inputs of SpecRace: the first two peers send CONNECT and SUBSCRIBE, the
\* third SUBSCRIBE and PUBLISH but never CONNECT, all on one topic.
SubscriberPackets ==
  [ connect |-> { [hdr |-> <<16, 0>>, data |-> <<>>] },
    publish |-> {},
    subscribe |-> { SubscribeInput(7, TopicBytesA) } ]
PublisherPackets ==
  [ connect |-> {},
    publish |-> { PublishInput(0, TopicBytesA, <<1>>) },
    subscribe |-> { SubscribeInput(7, TopicBytesA) } ]
Race(c) ==
  [ids |-> Ids,
   packets |-> IF c = IdOrder[3] THEN PublisherPackets ELSE SubscriberPackets,
   maxPackets |-> MaxRacePackets, maxAccepts |-> MaxRaceAccepts]

\* The inputs of SpecOrder: the first peer sends CONNECT and SUBSCRIBE, the
\* second CONNECT and PUBLISH, with two payloads, on the same topic.
TwoPayloadPackets ==
  [ connect |-> { [hdr |-> <<16, 0>>, data |-> <<>>] },
    publish |-> {PublishInput(0, TopicBytesA, m) : m \in PayloadBytes},
    subscribe |-> {} ]
Order(c) ==
  [ids |-> {IdOrder[1], IdOrder[2]},
   packets |-> IF c = IdOrder[2] THEN TwoPayloadPackets ELSE SubscriberPackets,
   maxPackets |-> MaxOrderPackets, maxAccepts |-> MaxOrderAccepts]

\* The inputs of SpecBusy: CONNECT, SUBSCRIBE, PINGREQ and PUBLISH on one
\* topic.  The first peer sends CONNECT and SUBSCRIBE, the second PUBLISH, the
\* third any of the four.
BusyPackets ==
  [ connect |-> { [hdr |-> <<16, 0>>, data |-> <<>>] },
    publish |-> { PublishInput(0, TopicBytesA, <<1>>) },
    subscribe |-> { SubscribeInput(7, TopicBytesA) },
    pingreq |-> { [hdr |-> <<192, 0>>, data |-> <<>>] } ]
Busy == [ids |-> Ids, packets |-> BusyPackets,
         maxPackets |-> MaxBusyPackets, maxAccepts |-> MaxBusyAccepts]
BusyOf(c) ==
  [Busy EXCEPT !.packets =
     IF c = IdOrder[1]
       THEN [BusyPackets EXCEPT !.publish = {}, !.pingreq = {}]
     ELSE IF c = IdOrder[2]
       THEN [BusyPackets EXCEPT !.connect = {}, !.subscribe = {}, !.pingreq = {}]
     ELSE BusyPackets]

\* The inputs of SpecLive: those of SpecOrder until the peer closes its end
\* of the connection, nothing after that.
NoPackets == [connect |-> {}, publish |-> {}, subscribe |-> {}]
Live(c, closed) ==
  [ids |-> {IdOrder[1], IdOrder[2]},
   packets |-> IF c \in closed THEN NoPackets ELSE Order(c).packets,
   maxPackets |-> MaxLivePackets, maxAccepts |-> MaxLiveAccepts]

(***************************************************************************)
(* State.                                                                  *)
(***************************************************************************)
VARIABLES
  clients,        \* self.clients: client_id -> writer (the connection's stream)
  subscriptions,  \* self.subscriptions: topic -> list of client_id
  message_count,  \* self.message_count
  pc,             \* per client_id: where its handle_client task is suspended
  gen,            \* per client_id: connections accepted with this peername
  loc,            \* per handler: the locals data, topic, message, list index
  npackets,       \* packets dispatched so far
  naccepts,       \* connections accepted so far
  fan,            \* history: the fan-out a handler is in the middle of
  subd,           \* history: topics the latest connection of an id subscribed to
  failed,         \* history: open streams a forwarded PUBLISH failed to drain on
  eof,            \* client_ids whose peer has closed its end, not yet read as b''
  ev              \* history: what the last step read and wrote

\* the broker's state (src/simple_mqtt_broker.py)
brokerVars == <<clients, subscriptions, message_count, pc, gen, loc, npackets,
                naccepts, fan, subd, failed, eof, ev>>

\* The buzzer alerter (src/buzzer_controller.py), a client of the broker.
VARIABLES
  alarm_active,         \* global alarm_active
  pending_off_timer,    \* global pending_off_timer: number of the timer, or 0
  last_triggered_time,  \* global last_triggered_time: None or a clock value
  clock,                \* datetime.now(), in tenths of a second
  connected,            \* mqtt_client.is_connected()
  callback,             \* where the network thread is in on_message
  activations,          \* per trigger_buzzer_for activation: its Timer thread
  published,            \* commands handed to mqtt_client.publish with rc 0
  nmessages,            \* readings delivered to on_message so far
  nticks                \* clock advances so far

buzzerVars == <<alarm_active, pending_off_timer, last_triggered_time, clock,
                connected, callback, activations, published, nmessages,
                nticks>>

\* The data collector (src/data_collector.py), a client of the broker.
VARIABLES
  data_buffer,     \* self.data_buffer
  file_counter,    \* self.file_counter
  last_dump_time,  \* self.last_dump_time
  manager,         \* where buffer_manager_thread is, with its locals
  written,         \* history: the files written by dumps that succeeded
  nrecords,        \* records appended by on_message so far
  ndumps           \* dumps started so far

collectorVars == <<data_buffer, file_counter, last_dump_time, manager,
                   written, nrecords, ndumps>>

vars == <<brokerVars, buzzerVars, collectorVars>>

\* a connection's stream: the writer of the gen-th connection from client_id
Writer(id, g) == [id |-> id, g |-> g]

NoLocals == [data |-> <<>>, topic |-> <<>>, message |-> <<>>, idx |-> 0]
NoFan ==
  [running |-> FALSE, list0 |-> <<>>, reg0 |-> {}, failed0 |-> {}, got |-> <<>>]

NoEvent ==
  [op |-> "init", c |-> NoId, hdr |-> <<>>, data |-> <<>>, drain_ok |-> TRUE,
   w |-> <<>>, closed |-> FALSE, decoded |-> FALSE, topic |-> <<>>,
   message |-> <<>>, done |-> FALSE, fan |-> NoFan]

\* Python's None, for a time or a reading that is absent
None == -1

\* the globals of lines 17-19 and 34-36, connected by mqtt_client.connect
BuzzerInit ==
  /\ alarm_active = FALSE
  /\ pending_off_timer = 0
  /\ last_triggered_time = None
  /\ clock = 0
  /\ connected = TRUE
  /\ callback = [pc |-> "idle", pm10 |-> None]
  /\ activations = <<>>
  /\ published = <<>>
  /\ nmessages = 0
  /\ nticks = 0

\* buffer_manager_thread between two rounds of its loop
Sleeping == [pc |-> "sleep", current_time |-> 0, data_to_save |-> <<>>]

\* DataCollector.__init__
CollectorInit ==
  /\ data_buffer = <<>>
  /\ file_counter = 1
  /\ last_dump_time = 0
  /\ manager = Sleeping
  /\ written = <<>>
  /\ nrecords = 0
  /\ ndumps = 0

\* server = asyncio.start_server(...); broker = SimpleMQTTBroker()
Init ==
  /\ clients = <<>>
  /\ subscriptions = <<>>
  /\ message_count = 0
  /\ pc = [c \in Ids |-> "closed"]
  /\ gen = [c \in Ids |-> 0]
  /\ loc = [c \in Ids |-> NoLocals]
  /\ npackets = 0
  /\ naccepts = 0
  /\ fan = [c \in Ids |-> NoFan]
  /\ subd = [c \in Ids |-> {}]
  /\ failed = {}
  /\ eof = {}
  /\ ev = NoEvent
  /\ BuzzerInit
  /\ CollectorInit

(***************************************************************************)
(* One step of handler c: its new position, the shared maps, its locals    *)
(* and the history variables after it.                                     *)
(***************************************************************************)
Effect(c, newpc, cl, subs, mc, l, f, e) ==
  /\ clients' = cl
  /\ subscriptions' = subs
  /\ message_count' = mc
  /\ pc' = [pc EXCEPT ![c] = newpc]
  /\ loc' = [loc EXCEPT ![c] = l]
  /\ fan' = [fan EXCEPT ![c] = f]
  /\ failed' =
       (failed \cup (IF e.op = "forward_drain" /\ ~e.drain_ok
                       THEN {wr \in {fan[c].got[Len(fan[c].got)]} :
                               gen[wr.id] = wr.g /\ pc[wr.id] # "closed"}
                       ELSE {}))
         \ (IF newpc = "closed" THEN {Writer(c, gen[c])} ELSE {})
  /\ eof' = IF newpc = "closed" THEN eof \ {c} ELSE eof
  /\ ev' = e
  /\ UNCHANGED <<buzzerVars, collectorVars>>

Event(op, c, in) == [NoEvent EXCEPT !.op = op, !.c = c, !.hdr = in.hdr, !.data = in.data]

NoInput == [hdr |-> <<>>, data |-> <<>>]

Write(writer, packet) == [to |-> writer, pkt |-> packet]

\* (mutant) the error is logged inside the loop and the handler reads on
FinallyReadsOn(c, mc, e) ==
  Effect(c, "read", Unregister(clients, c), Unsubscribe(subscriptions, c),
         mc, NoLocals, NoFan, [e EXCEPT !.closed = TRUE])

\* break, or an exception caught at "except Exception", then the finally
\* block: the handler leaves self.clients and self.subscriptions, closes its
\* writer and ends
Finally(c, mc, e) ==
  Effect(c, "closed", Unregister(clients, c), Unsubscribe(subscriptions, c),
         mc, NoLocals, NoFan, [e EXCEPT !.closed = TRUE])

\* (mutant) forward_message looks the writers up once, when the PUBLISH
\* arrives, and not at each write
ForwardMessageWritersAtPublish(c, data, topic, message, idx, mc, f, e) ==
  LET cl0 == [i \in {wr.id : wr \in f.reg0} |-> CHOOSE wr \in f.reg0 : wr.id = i]
      j == IF topic \in DOMAIN subscriptions
             THEN NextRegistered(subscriptions[topic], idx, cl0)
             ELSE 0
  IN IF j = 0
       THEN Effect(c, "read", clients, subscriptions, mc, NoLocals, NoFan,
                   [e EXCEPT !.done = TRUE, !.fan = f])
     ELSE LET client_id == subscriptions[topic][j]
              writer == cl0[client_id]
          IN Effect(c, "fan_drain", clients, subscriptions, mc,
                    [data |-> data, topic |-> topic, message |-> message,
                     idx |-> j],
                    [f EXCEPT !.got = Append(@, writer)],
                    [e EXCEPT !.w = <<Write(writer, PublishPacket(topic, message))>>])

\* (mutant) forward_message awaits the drain only after every second write:
\* the write to the next registered subscriber starts with the first one's
\* drain still pending
ForwardMessageTwoAtOnce(c, data, topic, message, idx, mc, f, e) ==
  LET j == IF topic \in DOMAIN subscriptions
             THEN NextRegistered(subscriptions[topic], idx, clients)
             ELSE 0
      j2 == IF j = 0 THEN 0
            ELSE NextRegistered(subscriptions[topic], j, clients)
  IN IF j = 0
       THEN Effect(c, "read", clients, subscriptions, mc, NoLocals, NoFan,
                   [e EXCEPT !.done = TRUE, !.fan = f])
     ELSE LET writer == clients[subscriptions[topic][j]]
              more == IF j2 = 0 THEN <<>>
                      ELSE <<clients[subscriptions[topic][j2]]>>
          IN Effect(c, "fan_drain", clients, subscriptions, mc,
                    [data |-> data, topic |-> topic, message |-> message,
                     idx |-> IF j2 = 0 THEN j ELSE j2],
                    [f EXCEPT !.got = Append(@, writer) \o more],
                    [e EXCEPT !.w =
                       <<Write(writer, PublishPacket(topic, message))>>
                       \o [k \in 1..Len(more) |->
                             Write(more[k], PublishPacket(topic, message))]])

\* (mutant) the PUBLISH branch starts forward_message without awaiting it:
\* the handler is back at its read while the fan-out is suspended
ForwardMessageNotAwaited(c, data, topic, message, idx, mc, f, e) ==
  LET j == IF topic \in DOMAIN subscriptions
             THEN NextRegistered(subscriptions[topic], idx, clients)
             ELSE 0
  IN IF j = 0
       THEN Effect(c, "read", clients, subscriptions, mc, NoLocals, NoFan,
                   [e EXCEPT !.done = TRUE, !.fan = f])
     ELSE LET client_id == subscriptions[topic][j]
              writer == clients[client_id]
          IN Effect(c, "read", clients, subscriptions, mc,
                    [data |-> data, topic |-> topic, message |-> message,
                     idx |-> j],
                    [f EXCEPT !.got = Append(@, writer)],
                    [e EXCEPT !.w = <<Write(writer, PublishPacket(topic, message))>>])

\* (mutant) forward_message without its "if topic in self.subscriptions":
\* a topic nobody subscribed to raises KeyError in the publisher's handler
ForwardMessageUnguarded(c, data, topic, message, idx, mc, f, e) ==
  LET j == IF topic \in DOMAIN subscriptions
             THEN NextRegistered(subscriptions[topic], idx, clients)
             ELSE 0
  IN IF topic \notin DOMAIN subscriptions
       THEN Finally(c, mc, e)
     ELSE IF j = 0
       THEN Effect(c, "read", clients, subscriptions, mc, NoLocals, NoFan,
                   [e EXCEPT !.done = TRUE, !.fan = f])
     ELSE LET client_id == subscriptions[topic][j]
              writer == clients[client_id]
          IN Effect(c, "fan_drain", clients, subscriptions, mc,
                    [data |-> data, topic |-> topic, message |-> message,
                     idx |-> j],
                    [f EXCEPT !.got = Append(@, writer)],
                    [e EXCEPT !.w = <<Write(writer, PublishPacket(topic, message))>>])

\* forward_message from list index idx on, up to its next "await writer.drain()"
\* or to its return
ForwardMessage(c, data, topic, message, idx, mc, f, e) ==
  LET j == IF topic \in DOMAIN subscriptions
             THEN NextRegistered(subscriptions[topic], idx, clients)
             ELSE 0
  IN IF j = 0
       THEN Effect(c, "read", clients, subscriptions, mc, NoLocals, NoFan,
                   [e EXCEPT !.done = TRUE, !.fan = f])
     ELSE IF ~PublishEncodable(topic, message)
       THEN Finally(c, mc, e)
     ELSE LET client_id == subscriptions[topic][j]
              writer == clients[client_id]
          IN Effect(c, "fan_drain", clients, subscriptions, mc,
                    [data |-> data, topic |-> topic, message |-> message,
                     idx |-> j],
                    [f EXCEPT !.got = Append(@, writer)],
                    [e EXCEPT !.w = <<Write(writer, PublishPacket(topic, message))>>])

(***************************************************************************)
(* Actions.                                                                *)
(***************************************************************************)
\* (mutant) connections are accepted only while no fan-out is suspended
AcceptWhenIdle(c, B) ==
  /\ \A x \in Ids : pc[x] # "fan_drain"
  /\ pc[c] = "closed"
  /\ naccepts < B.maxAccepts
  /\ gen[c] = 0 =>
       \A i \in 1..Len(IdOrder) : \A k \in 1..Len(IdOrder) :
         (IdOrder[k] = c /\ i < k) => gen[IdOrder[i]] > 0
  /\ gen' = [gen EXCEPT ![c] = @ + 1]
  /\ naccepts' = naccepts + 1
  /\ subd' = [subd EXCEPT ![c] = {}]
  /\ Effect(c, "read", clients, subscriptions, message_count, NoLocals, NoFan,
            Event("accept", c, NoInput))
  /\ UNCHANGED npackets

\* asyncio.start_server accepts a connection and starts handle_client for it.
\* Identifiers never used before are taken in the order of IdOrder.
Accept(c, B) ==
  /\ pc[c] = "closed"
  /\ naccepts < B.maxAccepts
  /\ gen[c] = 0 =>
       \A i \in 1..Len(IdOrder) : \A k \in 1..Len(IdOrder) :
         (IdOrder[k] = c /\ i < k) => gen[IdOrder[i]] > 0
  /\ gen' = [gen EXCEPT ![c] = @ + 1]
  /\ naccepts' = naccepts + 1
  /\ subd' = [subd EXCEPT ![c] = {}]
  /\ Effect(c, "read", clients, subscriptions, message_count, NoLocals, NoFan,
            Event("accept", c, NoInput))
  /\ UNCHANGED npackets

\* (mutant) "if not header: continue": the handler goes back to its read
ReadEofIgnored(c, B) ==
  /\ pc[c] = "read"
  /\ Effect(c, "read", clients, subscriptions, message_count, NoLocals, NoFan,
            Event("eof", c, NoInput))
  /\ UNCHANGED <<gen, npackets, naccepts, subd>>

\* header = await reader.read(2); if not header: break
ReadEof(c, B) ==
  /\ pc[c] = "read"
  /\ Finally(c, message_count, Event("eof", c, NoInput))
  /\ UNCHANGED <<gen, npackets, naccepts, subd>>

\* reader.read(2) returns one byte: header[1] raises IndexError
ReadShortHeader(c, B) ==
  /\ pc[c] = "read"
  /\ \E h \in B.packets.short :
       Finally(c, message_count, Event("short_header", c, [hdr |-> h, data |-> <<>>]))
  /\ UNCHANGED <<gen, npackets, naccepts, subd>>

\* packet_type == 1: writer.write(connack); await writer.drain()
HandleConnect(c, B) ==
  /\ pc[c] = "read"
  /\ npackets < B.maxPackets
  /\ \E in \in B.packets.connect :
       /\ PacketType(in.hdr) = CONNECT
       /\ Effect(c, "connect_drain", clients, subscriptions, message_count,
                 NoLocals, NoFan,
                 [Event("connect", c, in) EXCEPT
                    !.w = <<Write(Writer(c, gen[c]), Connack)>>])
  /\ npackets' = npackets + 1
  /\ UNCHANGED <<gen, naccepts, subd>>

\* (mutant) CONNECT starts a clean session: an entry the identifier has in a
\* list is dropped when it registers
ConnectDrainCleanSession(c, B) ==
  /\ pc[c] = "connect_drain"
  /\ \E ok \in BOOLEAN :
       LET e == [Event("connect_drain", c, NoInput) EXCEPT !.drain_ok = ok]
       IN IF ok
            THEN Effect(c, "read", Register(clients, c, Writer(c, gen[c])),
                        Unsubscribe(subscriptions, c), message_count,
                        NoLocals, NoFan, e)
            ELSE Finally(c, message_count, e)
  /\ UNCHANGED <<gen, npackets, naccepts, subd>>

\* the drain of the CONNACK returns, then self.clients[client_id] = writer;
\* or the drain raises
ConnectDrain(c, B) ==
  /\ pc[c] = "connect_drain"
  /\ \E ok \in BOOLEAN :
       LET e == [Event("connect_drain", c, NoInput) EXCEPT !.drain_ok = ok]
       IN IF ok
            THEN Effect(c, "read", Register(clients, c, Writer(c, gen[c])),
                        subscriptions, message_count, NoLocals, NoFan, e)
            ELSE Finally(c, message_count, e)
  /\ UNCHANGED <<gen, npackets, naccepts, subd>>

\* (mutant) only a PUBLISH to a topic that has a list is counted
HandlePublishCountsRouted(c, B) ==
  /\ pc[c] = "read"
  /\ npackets < B.maxPackets
  /\ \E in \in B.packets.publish :
       /\ PacketType(in.hdr) = PUBLISH
       /\ LET d == DecodePublish(in.data)
              e == Event("publish", c, in)
          IN IF ~d.ok
               THEN Finally(c, message_count, e)
               ELSE ForwardMessage(c, in.data, d.topic, d.message, 0,
                      IF d.topic \in DOMAIN subscriptions
                        THEN message_count + 1 ELSE message_count,
                      [running |-> TRUE,
                       list0 |-> IF d.topic \in DOMAIN subscriptions
                                   THEN subscriptions[d.topic] ELSE <<>>,
                       reg0 |-> {clients[i] : i \in DOMAIN clients},
                       failed0 |-> failed,
                       got |-> <<>>],
                      [e EXCEPT !.decoded = TRUE, !.topic = d.topic,
                                !.message = d.message])
  /\ npackets' = npackets + 1
  /\ UNCHANGED <<gen, naccepts, subd>>

\* (mutant) a PUBLISH from a session that is not registered is an error
HandlePublishIfRegistered(c, B) ==
  /\ pc[c] = "read"
  /\ npackets < B.maxPackets
  /\ \E in \in B.packets.publish :
       /\ PacketType(in.hdr) = PUBLISH
       /\ LET d == DecodePublish(in.data)
              e == Event("publish", c, in)
          IN IF ~d.ok \/ c \notin DOMAIN clients
               THEN Finally(c, message_count, e)
               ELSE ForwardMessage(c, in.data, d.topic, d.message, 0,
                      message_count + 1,
                      [running |-> TRUE,
                       list0 |-> IF d.topic \in DOMAIN subscriptions
                                   THEN subscriptions[d.topic] ELSE <<>>,
                       reg0 |-> {clients[i] : i \in DOMAIN clients},
                       failed0 |-> failed,
                       got |-> <<>>],
                      [e EXCEPT !.decoded = TRUE, !.topic = d.topic,
                                !.message = d.message])
  /\ npackets' = npackets + 1
  /\ UNCHANGED <<gen, naccepts, subd>>

\* packet_type == 3: decode, count, forward_message up to its first await
HandlePublish(c, B) ==
  /\ pc[c] = "read"
  /\ npackets < B.maxPackets
  /\ \E in \in B.packets.publish :
       /\ PacketType(in.hdr) = PUBLISH
       /\ LET d == DecodePublish(in.data)
              e == Event("publish", c, in)
          IN IF ~d.ok
               THEN Finally(c, message_count, e)
               ELSE ForwardMessage(c, in.data, d.topic, d.message, 0,
                      message_count + 1,
                      [running |-> TRUE,
                       list0 |-> IF d.topic \in DOMAIN subscriptions
                                   THEN subscriptions[d.topic] ELSE <<>>,
                       reg0 |-> {clients[i] : i \in DOMAIN clients},
                       failed0 |-> failed,
                       got |-> <<>>],
                      [e EXCEPT !.decoded = TRUE, !.topic = d.topic,
                                !.message = d.message])
  /\ npackets' = npackets + 1
  /\ UNCHANGED <<gen, naccepts, subd>>

\* the drain of a forwarded PUBLISH returns or raises (bare except: logged),
\* and the for loop of forward_message goes on
ForwardDrain(c, B) ==
  /\ pc[c] = "fan_drain"
  /\ \E ok \in BOOLEAN :
       ForwardMessage(c, loc[c].data, loc[c].topic, loc[c].message, loc[c].idx,
                      message_count, fan[c],
                      [Event("forward_drain", c, [hdr |-> <<>>, data |-> loc[c].data]) EXCEPT
                         !.drain_ok = ok, !.decoded = TRUE,
                         !.topic = loc[c].topic, !.message = loc[c].message])
  /\ UNCHANGED <<gen, npackets, naccepts, subd>>

\* packet_type == 8: packet_id, writer.write(suback); await writer.drain()
HandleSubscribe(c, B) ==
  /\ pc[c] = "read"
  /\ npackets < B.maxPackets
  /\ \E in \in B.packets.subscribe :
       /\ PacketType(in.hdr) = SUBSCRIBE
       /\ LET e == Event("subscribe", c, in)
          IN IF ~SubscribePacketIdOk(in.data)
               THEN Finally(c, message_count, e)
               ELSE Effect(c, "subscribe_drain", clients, subscriptions,
                           message_count, [NoLocals EXCEPT !.data = in.data],
                           NoFan,
                           [e EXCEPT !.w =
                              <<Write(Writer(c, gen[c]),
                                      Suback(SubscribePacketId(in.data)))>>])
  /\ npackets' = npackets + 1
  /\ UNCHANGED <<gen, naccepts, subd>>

\* the drain of the SUBACK returns, then the topic filter is decoded and the
\* subscription stored; or the drain raises
SubscribeDrain(c, B) ==
  /\ pc[c] = "subscribe_drain"
  /\ \E ok \in BOOLEAN :
       LET e == [Event("subscribe_drain", c, [hdr |-> <<>>, data |-> loc[c].data])
                   EXCEPT !.drain_ok = ok]
           d == DecodeSubscribeTopic(loc[c].data)
       IN IF ok /\ d.ok
            THEN /\ Effect(c, "read", clients,
                           Subscribe(subscriptions, d.topic, c), message_count,
                           NoLocals, NoFan,
                           [e EXCEPT !.decoded = TRUE, !.topic = d.topic])
                 /\ subd' = [subd EXCEPT ![c] = @ \cup {d.topic}]
            ELSE /\ Finally(c, message_count, e)
                 /\ UNCHANGED subd
  /\ UNCHANGED <<gen, npackets, naccepts>>

\* packet_type == 12: writer.write(pingresp); await writer.drain()
HandlePingreq(c, B) ==
  /\ pc[c] = "read"
  /\ npackets < B.maxPackets
  /\ \E in \in B.packets.pingreq :
       /\ PacketType(in.hdr) = PINGREQ
       /\ Effect(c, "ping_drain", clients, subscriptions, message_count,
                 NoLocals, NoFan,
                 [Event("pingreq", c, in) EXCEPT
                    !.w = <<Write(Writer(c, gen[c]), Pingresp)>>])
  /\ npackets' = npackets + 1
  /\ UNCHANGED <<gen, naccepts, subd>>

\* the drain of the PINGRESP returns or raises
PingDrain(c, B) ==
  /\ pc[c] = "ping_drain"
  /\ \E ok \in BOOLEAN :
       LET e == [Event("ping_drain", c, NoInput) EXCEPT !.drain_ok = ok]
       IN IF ok
            THEN Effect(c, "read", clients, subscriptions, message_count,
                        NoLocals, NoFan, e)
            ELSE Finally(c, message_count, e)
  /\ UNCHANGED <<gen, npackets, naccepts, subd>>

\* any other packet type: no branch of the if/elif chain is taken
HandleOther(c, B) ==
  /\ pc[c] = "read"
  /\ npackets < B.maxPackets
  /\ \E in \in B.packets.other :
       /\ PacketType(in.hdr) \notin {CONNECT, PUBLISH, SUBSCRIBE, PINGREQ}
       /\ Effect(c, "read", clients, subscriptions, message_count, NoLocals,
                 NoFan, Event("other", c, in))
  /\ npackets' = npackets + 1
  /\ UNCHANGED <<gen, naccepts, subd>>

Next ==
  \E c \in Broker.ids :
    \/ Accept(c, Broker)
    \/ ReadEof(c, Broker)
    \/ HandleConnect(c, Broker)
    \/ ConnectDrain(c, Broker)
    \/ HandlePublish(c, Broker)
    \/ ForwardDrain(c, Broker)
    \/ HandleSubscribe(c, Broker)
    \/ SubscribeDrain(c, Broker)

\* Connections racing on CONNECT, SUBSCRIBE, PUBLISH and disconnect.
Spec == Init /\ [][Next]_vars

NextWire ==
  \E c \in Wire.ids :
    \/ Accept(c, Wire)
    \/ ReadEof(c, Wire)
    \/ ReadShortHeader(c, Wire)
    \/ HandleConnect(c, Wire)
    \/ ConnectDrain(c, Wire)
    \/ HandlePublish(c, Wire)
    \/ ForwardDrain(c, Wire)
    \/ HandleSubscribe(c, Wire)
    \/ SubscribeDrain(c, Wire)
    \/ HandlePingreq(c, Wire)
    \/ PingDrain(c, Wire)
    \/ HandleOther(c, Wire)

\* Every packet type, the malformed and boundary inputs.
SpecWire == Init /\ [][NextWire]_vars

NextRace ==
  \E c \in Ids :
    \/ Accept(c, Race(c))
    \/ ReadEof(c, Race(c))
    \/ HandleConnect(c, Race(c))
    \/ ConnectDrain(c, Race(c))
    \/ HandlePublish(c, Race(c))
    \/ ForwardDrain(c, Race(c))
    \/ HandleSubscribe(c, Race(c))
    \/ SubscribeDrain(c, Race(c))

\* Two subscribers and a publisher: a third session's cleanup during a
\* fan-out between two others.
SpecRace == Init /\ [][NextRace]_vars

NextOrder ==
  \E c \in Order(IdOrder[1]).ids :
    \/ Accept(c, Order(c))
    \/ ReadEof(c, Order(c))
    \/ HandleConnect(c, Order(c))
    \/ ConnectDrain(c, Order(c))
    \/ HandlePublish(c, Order(c))
    \/ ForwardDrain(c, Order(c))
    \/ HandleSubscribe(c, Order(c))
    \/ SubscribeDrain(c, Order(c))

\* One subscriber and one session that publishes several times.
SpecOrder == Init /\ [][NextOrder]_vars

NextBusy ==
  \E c \in Busy.ids :
    \/ Accept(c, BusyOf(c))
    \/ ReadEof(c, BusyOf(c))
    \/ HandleConnect(c, BusyOf(c))
    \/ ConnectDrain(c, BusyOf(c))
    \/ HandlePublish(c, BusyOf(c))
    \/ ForwardDrain(c, BusyOf(c))
    \/ HandleSubscribe(c, BusyOf(c))
    \/ SubscribeDrain(c, BusyOf(c))
    \/ HandlePingreq(c, BusyOf(c))
    \/ PingDrain(c, BusyOf(c))

\* Three sessions: what the others do while one is in a fan-out.
SpecBusy == Init /\ [][NextBusy]_vars

\* the peer of c closes its end: the StreamReader of c is fed end-of-stream,
\* which the handler sees at its next reader.read
PeerCloses(c, B) ==
  /\ pc[c] # "closed"
  /\ c \notin eof
  /\ eof' = eof \cup {c}
  /\ ev' = Event("peer_eof", c, NoInput)
  /\ UNCHANGED <<clients, subscriptions, message_count, pc, gen, loc, npackets,
                 naccepts, fan, subd, failed, buzzerVars, collectorVars>>

\* header = await reader.read(2) on a stream that was fed end-of-stream
ReadEofFed(c, B) == c \in eof /\ ReadEof(c, B)

NextLive ==
  \E c \in Live(IdOrder[1], eof).ids :
    \/ Accept(c, Live(c, eof))
    \/ PeerCloses(c, Live(c, eof))
    \/ ReadEofFed(c, Live(c, eof))
    \/ HandleConnect(c, Live(c, eof))
    \/ ConnectDrain(c, Live(c, eof))
    \/ HandlePublish(c, Live(c, eof))
    \/ ForwardDrain(c, Live(c, eof))
    \/ HandleSubscribe(c, Live(c, eof))
    \/ SubscribeDrain(c, Live(c, eof))

\* the event loop resumes a handler whose awaited read or drain has a result
FairLive ==
  \A c \in Live(IdOrder[1], {}).ids :
    /\ WF_vars(ReadEofFed(c, Live(c, eof)))
    /\ WF_vars(ConnectDrain(c, Live(c, eof)))
    /\ WF_vars(ForwardDrain(c, Live(c, eof)))
    /\ WF_vars(SubscribeDrain(c, Live(c, eof)))

\* One subscriber and one publisher whose peers close their end at any
\* time; every pending read and drain eventually returns or raises.
SpecLive == Init /\ [][NextLive]_vars /\ FairLive

(***************************************************************************)
(* Properties.  ev describes the step that led to the current state: the   *)
(* handler ev.c, what it read (ev.hdr, ev.data), what it wrote (ev.w),     *)
(* whether it ended in the finally block (ev.closed) and, when a fan-out   *)
(* returned in this step (ev.done), the list and the registered writers    *)
(* at publish time and the writers written since (ev.fan).                 *)
(***************************************************************************)
IsPublishStep(e) == e.op \in {"publish", "forward_drain"}

IsReadStep(e) ==
  e.op \in {"short_header", "connect", "publish", "subscribe", "pingreq", "other"}

\* the connection behind a writer has not run its finally block
StreamOpen(wr) == gen[wr.id] = wr.g /\ pc[wr.id] # "closed"

\* writer wr was registered when the fan-out started and still is
StillRegistered(wr) == wr.id \in DOMAIN clients /\ clients[wr.id] = wr

\* every packet written in step e is 0x30, the length, and the topic and
\* payload bytes of the inbound body e.data
ForwardedIntact(e) ==
  \A i \in 1..Len(e.w) :
    LET tl == Unpack(Slice(e.data, 0, 2))
        tb == Slice(e.data, 2, 2 + tl)
        m == SliceFrom(e.data, 2 + tl)
    IN e.w[i].pkt = <<48, 2 + Len(tb) + Len(m)>> \o Pack(Len(tb)) \o tb \o m

\* C1: when the fan-out of a PUBLISH returns, every session that was listed
\* under the topic and registered at publish time (and has stayed registered)
\* has been written at least one PUBLISH per occurrence in the list at
\* publish time, each carrying the published topic and payload bytes.
C1_PublishReachesListedRegistered ==
  /\ IsPublishStep(ev) => ForwardedIntact(ev)
  /\ ev.done =>
       \A wr \in ev.fan.reg0 :
         StillRegistered(wr) =>
           Occurrences(ev.fan.got, wr) >= Occurrences(ev.fan.list0, wr.id)

\* C2: after the finally block of a session has run, its identifier is in
\* neither self.clients nor any list of self.subscriptions.
C2_CleanupStripsAllOccurrences ==
  ev.closed =>
    /\ ev.c \notin DOMAIN clients
    /\ \A t \in DOMAIN subscriptions : ~Contains(subscriptions[t], ev.c)

\* C3: no PUBLISH is written to the stream of a connection whose finally
\* block has run, whatever it had subscribed to.
C3_NoPublishAfterCleanup ==
  \A i \in 1..Len(ev.w) :
    PacketType(ev.w[i].pkt) = PUBLISH => StreamOpen(ev.w[i].to)

\* C3 witness: a PUBLISH to a topic is handled after a session that had
\* subscribed to that topic was cleaned up, while its stale list entry is
\* still looked at by the router.
C3_Witness ==
  /\ ev.op = "publish" /\ ev.decoded
  /\ \E id \in Ids \ {ev.c} :
       /\ pc[id] = "closed"
       /\ ev.topic \in subd[id]
       /\ Contains(ev.fan.list0, id)

\* C4: a header whose remaining-length byte is above 127 is rejected: no
\* body is read for it, nothing is written and the session is closed.
C4_OversizeLengthRejected ==
  (IsReadStep(ev) /\ Len(ev.hdr) = 2 /\ RemainingLength(ev.hdr) > 127) =>
    (ev.closed /\ ev.data = <<>> /\ ev.w = <<>>)

\* C5: a read that returns fewer bytes than requested, or a body that does
\* not decode, closes the session in that step and nothing is written.
C5_ShortReadCloses ==
  /\ (IsReadStep(ev) /\ Len(ev.hdr) = 1) => (ev.closed /\ ev.w = <<>>)
  /\ (IsReadStep(ev) /\ Len(ev.hdr) = 2
        /\ Len(ev.data) < RemainingLength(ev.hdr)) => (ev.closed /\ ev.w = <<>>)
  /\ (ev.op = "publish" /\ ~ev.decoded) => (ev.closed /\ ev.w = <<>>)

\* C6: when the fan-out of a PUBLISH returns, a session that was registered
\* and listed twice under the topic at publish time, and still is both, has
\* been written exactly two PUBLISH packets.
C6_TwiceSubscribedTwiceDelivered ==
  (ev.done /\ ev.topic \in DOMAIN subscriptions) =>
    \A wr \in ev.fan.reg0 :
      ( /\ StillRegistered(wr)
        /\ Occurrences(ev.fan.list0, wr.id) = 2
        /\ Occurrences(subscriptions[ev.topic], wr.id) = 2 )
      => Occurrences(ev.fan.got, wr) = 2

\* C7: every CONNECT dispatched is answered, in that step, with the one
\* packet 0x20 0x02 0x00 0x00 on the sender's own stream and does not close
\* the session; no other step writes a CONNACK.
C7_ConnectAlwaysAccepted ==
  /\ ev.op = "connect" =>
       /\ ev.w = <<[to |-> Writer(ev.c, gen[ev.c]), pkt |-> <<32, 2, 0, 0>>]>>
       /\ ~ev.closed
  /\ \A i \in 1..Len(ev.w) :
       PacketType(ev.w[i].pkt) = 2 => ev.op = "connect"

\* C7 witness: a CONNECT with a garbage, cut-short body from a session that
\* is already registered has just been answered.
C7_Witness ==
  /\ ev.op = "connect"
  /\ ev.data = <<255, 0, 7>>
  /\ ev.c \in DOMAIN clients
  /\ Len(ev.w) = 1

\* C8: every SUBSCRIBE whose body holds a packet identifier is answered, in
\* that step, with the one packet 0x90 0x03 <the two identifier bytes> 0x00
\* on the sender's own stream; no other step writes a SUBACK.
C8_SubackEchoesPacketId ==
  /\ (ev.op = "subscribe" /\ Len(ev.data) >= 2) =>
       ev.w = <<[to |-> Writer(ev.c, gen[ev.c]),
                 pkt |-> <<144, 3, ev.data[1], ev.data[2], 0>>]>>
  /\ \A i \in 1..Len(ev.w) :
       PacketType(ev.w[i].pkt) = 9 => ev.op = "subscribe"

\* C8 witness: a SUBSCRIBE with packet identifier 0x1234 has been answered.
C8_Witness ==
  /\ ev.op = "subscribe"
  /\ Len(ev.data) >= 2 /\ ev.data[1] = 18 /\ ev.data[2] = 52
  /\ Len(ev.w) = 1

\* C9: the step that dispatches a PINGREQ writes the one packet 0xD0 0x00 to
\* the sender's own stream and leaves self.clients and self.subscriptions
\* as they were, and so does the return of its drain; no other step writes a
\* PINGRESP.
C9_PingreqAnsweredOnce ==
  [][ /\ ev'.op = "pingreq" =>
           /\ ev'.w = <<[to |-> Writer(ev'.c, gen[ev'.c]), pkt |-> <<208, 0>>]>>
           /\ ~ev'.closed
           /\ clients' = clients /\ subscriptions' = subscriptions
      /\ (ev'.op = "ping_drain" /\ ev'.drain_ok) =>
           /\ ev'.w = <<>>
           /\ ~ev'.closed
           /\ clients' = clients /\ subscriptions' = subscriptions
      /\ \A i \in 1..Len(ev'.w) :
           PacketType(ev'.w[i].pkt) = 13 => ev'.op = "pingreq"
    ]_vars

\* C9 witness: a PINGREQ from a session that never sent CONNECT has been
\* answered while another session is registered and subscribed.
C9_Witness ==
  /\ ev.op = "pingreq"
  /\ ev.c \notin DOMAIN clients
  /\ Len(ev.w) = 1
  /\ \E t \in DOMAIN subscriptions : \E i \in 1..Len(subscriptions[t]) :
       subscriptions[t][i] \in DOMAIN clients

\* C10: a PUBLISH whose topic has no list, or an empty list, writes nothing,
\* returns to the read loop without closing the publisher and leaves
\* self.clients and self.subscriptions as they were.
C10_PublishNoSubscribers ==
  [][ ( /\ ev'.op = "publish" /\ ev'.decoded
        /\ \/ ev'.topic \notin DOMAIN subscriptions
           \/ subscriptions[ev'.topic] = <<>> )
      => /\ ev'.w = <<>>
         /\ ~ev'.closed
         /\ pc'[ev'.c] = "read"
         /\ clients' = clients /\ subscriptions' = subscriptions
    ]_vars

\* C10 witness: a PUBLISH to a topic without a list has been handled while a
\* registered session is subscribed to another topic.
C10_Witness ==
  /\ ev.op = "publish" /\ ev.decoded /\ ev.done
  /\ ev.topic \notin DOMAIN subscriptions
  /\ \E t \in DOMAIN subscriptions : \E i \in 1..Len(subscriptions[t]) :
       subscriptions[t][i] \in DOMAIN clients

\* C11: when the drain of a forwarded PUBLISH raises, the publisher's handler
\* is not closed, and if a session listed after the failing one at publish
\* time is registered as it was then and still listed under the topic, the
\* loop goes on and writes a PUBLISH in that step.
C11_FailedWriteDoesNotStopPass ==
  [][ (ev'.op = "forward_drain" /\ ~ev'.drain_ok) =>
        /\ ~ev'.closed
        /\ LET c == ev'.c
               idx == loc[c].idx
               list0 == fan[c].list0
           IN (\E k \in (idx + 1)..Len(list0) :
                 /\ list0[idx] = fan[c].got[Len(fan[c].got)].id
                 /\ list0[k] \in DOMAIN clients
                 /\ clients[list0[k]] \in fan[c].reg0
                 /\ Contains(subscriptions[loc[c].topic], list0[k]))
              => ev'.w # <<>>
    ]_vars

\* C12: a drain of a forwarded PUBLISH that raises leaves self.clients and
\* self.subscriptions as they were, and when the fan-out of a later PUBLISH
\* to the topic returns, every stream of another session that a forwarded
\* PUBLISH had failed on before, open, registered and listed under the topic
\* from that PUBLISH to the return, has been written to.
C12_FailedSubscriberStaysAndIsRetried ==
  [][ /\ (ev'.op = "forward_drain" /\ ~ev'.drain_ok) =>
           (clients' = clients /\ subscriptions' = subscriptions)
      /\ (ev'.done /\ ev'.topic \in DOMAIN subscriptions') =>
           \A wr \in ev'.fan.failed0 :
             ( /\ wr.id # ev'.c
               /\ gen'[wr.id] = wr.g /\ pc'[wr.id] # "closed"
               /\ wr \in ev'.fan.reg0
               /\ Contains(ev'.fan.list0, wr.id)
               /\ wr.id \in DOMAIN clients' /\ clients'[wr.id] = wr
               /\ Contains(subscriptions'[ev'.topic], wr.id) )
             => Contains(ev'.fan.got, wr)
    ]_vars

\* the identifiers registered when the fan-out f started
RegisteredIds0(f) == {wr.id : wr \in f.reg0}

\* the list of fan-out f held an identifier that was not registered
ListedUnregistered0(f) ==
  \E i \in 1..Len(f.list0) : f.list0[i] \notin RegisteredIds0(f)

\* C13: a PUBLISH is only ever written to the stream registered under a
\* listed identifier, and when the fan-out of a PUBLISH whose list held an
\* unregistered identifier returns, the publisher is not closed and every
\* session listed and registered from the PUBLISH to the return has been
\* written the PUBLISH.
C13_UnregisteredSkippedRestDelivered ==
  /\ \A i \in 1..Len(ev.w) :
       PacketType(ev.w[i].pkt) = PUBLISH => StillRegistered(ev.w[i].to)
  /\ (ev.done /\ ListedUnregistered0(ev.fan)) =>
       /\ ~ev.closed
       /\ pc[ev.c] = "read"
       /\ \A wr \in ev.fan.reg0 :
            ( /\ StillRegistered(wr)
              /\ Contains(ev.fan.list0, wr.id)
              /\ Contains(subscriptions[ev.topic], wr.id) )
            => Contains(ev.fan.got, wr)

\* the entries of list that belong to identifiers other than c, in order
EntriesOfOthers(list, c) == SelectSeq(list, LAMBDA x : x # c)

\* C14: a step in which a handler ends (end of stream, a read or decode
\* error, a reply whose drain raises) leaves the registry entry, the list
\* entries, the position and the locals of every other session as they were.
C14_ErrorClosesOnlyThatSession ==
  [][ ev'.closed =>
        /\ pc'[ev'.c] = "closed"
        /\ \A d \in Ids \ {ev'.c} :
             /\ (d \in DOMAIN clients') = (d \in DOMAIN clients)
             /\ d \in DOMAIN clients => clients'[d] = clients[d]
             /\ pc'[d] = pc[d]
             /\ loc'[d] = loc[d]
        /\ DOMAIN subscriptions' = DOMAIN subscriptions
        /\ \A t \in DOMAIN subscriptions :
             EntriesOfOthers(subscriptions'[t], ev'.c)
               = EntriesOfOthers(subscriptions[t], ev'.c)
    ]_vars

\* C14 witness: a PUBLISH that does not decode has closed its session while
\* another session is registered, subscribed and waiting for its next packet.
C14_Witness ==
  /\ ev.op = "publish" /\ ~ev.decoded /\ ev.closed
  /\ \E d \in Ids \ {ev.c} :
       /\ d \in DOMAIN clients
       /\ pc[d] = "read"
       /\ \E t \in DOMAIN subscriptions : Contains(subscriptions[t], d)

\* C15: the second byte of every PUBLISH written is at most 127 and equals
\* 2 + the number of topic bytes + the number of payload bytes of the
\* inbound body it forwards.
C15_OutboundRemainingLength ==
  \A i \in 1..Len(ev.w) :
    PacketType(ev.w[i].pkt) = PUBLISH =>
      LET tl == Unpack(Slice(ev.data, 0, 2))
          tb == Slice(ev.data, 2, 2 + tl)
          m == SliceFrom(ev.data, 2 + tl)
          remaining_length == ev.w[i].pkt[2]
      IN /\ remaining_length \in 0..127
         /\ remaining_length = 2 + Len(tb) + Len(m)

\* C16: end of stream, a header of one byte, a PUBLISH or SUBSCRIBE body
\* that does not decode end the handler in the step that meets them, then
\* unregistered; a handler that has ended takes no step, is not registered
\* and gains no list entry until a new connection is accepted under its
\* identifier; and every registered stream is that of a running handler.
C16_ClosedIsTerminal ==
  [][ /\ ( \/ ev'.op \in {"eof", "short_header"}
           \/ (ev'.op = "publish" /\ ~ev'.decoded)
           \/ (ev'.op = "subscribe" /\ ev'.w = <<>>)
           \/ (ev'.op = "subscribe_drain" /\ ~ev'.decoded) )
         => /\ ev'.closed
            /\ pc'[ev'.c] = "closed"
            /\ ev'.c \notin DOMAIN clients'
      /\ \A c \in Ids :
           (pc[c] = "closed" /\ gen'[c] = gen[c]) =>
             /\ pc'[c] = "closed"
             /\ ev'.c # c
             /\ c \notin DOMAIN clients'
             /\ \A t \in DOMAIN subscriptions' :
                  Occurrences(subscriptions'[t], c)
                    <= (IF t \in DOMAIN subscriptions
                          THEN Occurrences(subscriptions[t], c) ELSE 0)
      /\ \A c \in DOMAIN clients' :
           clients'[c] = Writer(c, gen'[c]) /\ pc'[c] # "closed"
    ]_vars

\* C16 witness: a session has been closed by a SUBSCRIBE whose topic filter
\* does not decode, found after its SUBACK was drained, while another
\* session is open.
C16_Witness ==
  /\ ev.op = "subscribe_drain" /\ ev.drain_ok /\ ~ev.decoded /\ ev.closed
  /\ pc[ev.c] = "closed"
  /\ \E d \in Ids \ {ev.c} : pc[d] # "closed"

\* the list of topic in subs, empty when the topic has none
ListOf(subs, topic) == IF topic \in DOMAIN subs THEN subs[topic] ELSE <<>>

\* C17: whether or not the sender is registered, the step that dispatches a
\* SUBSCRIBE holding a packet identifier writes one SUBACK to the sender's
\* stream and does not close it, and when the drain of that SUBACK returns
\* and the body is a well-formed SUBSCRIBE, the sender's identifier is
\* appended to the list of the topic named by the filter bytes and no other
\* list changes; neither step changes self.clients.
C17_SubscribeInAnyState ==
  [][ /\ (ev'.op = "subscribe" /\ Len(ev'.data) >= 2) =>
           /\ Len(ev'.w) = 1
           /\ ev'.w[1].to = Writer(ev'.c, gen[ev'.c])
           /\ PacketType(ev'.w[1].pkt) = 9
           /\ ~ev'.closed
           /\ clients' = clients
      /\ (ev'.op = "subscribe_drain" /\ ev'.drain_ok) =>
           /\ (\E pid \in PacketIds : \E tb \in {TopicBytesA, TopicBytesE} :
                 ev'.data = SubscribeInput(pid, tb).data)
              => (ev'.decoded /\ ~ev'.closed)
           /\ ev'.decoded =>
                /\ Utf8Encode(ev'.topic)
                     = Slice(ev'.data, 4, 4 + Unpack(Slice(ev'.data, 2, 4)))
                /\ ListOf(subscriptions', ev'.topic)
                     = Append(ListOf(subscriptions, ev'.topic), ev'.c)
                /\ \A t \in DOMAIN subscriptions' \ {ev'.topic} :
                     ListOf(subscriptions', t) = ListOf(subscriptions, t)
                /\ clients' = clients
    ]_vars

\* C17 witness: the SUBSCRIBE of a session that never sent CONNECT has been
\* acknowledged and stored in a list that already held another identifier.
C17_Witness ==
  /\ ev.op = "subscribe_drain" /\ ev.drain_ok /\ ev.decoded
  /\ ev.c \notin DOMAIN clients
  /\ Len(subscriptions[ev.topic]) >= 2
  /\ subscriptions[ev.topic][Len(subscriptions[ev.topic])] = ev.c
  /\ subscriptions[ev.topic][1] # ev.c

\* the indices after idx of the registered identifiers of list
RegisteredAfter(list, idx, cl) ==
  {j \in (idx + 1)..Len(list) : list[j] \in DOMAIN cl}

\* C18: whether or not the sender is registered, the step that dispatches a
\* PUBLISH whose body decodes adds one to self.message_count, changes neither
\* map, does not close the sender, and writes the PUBLISH, with the inbound
\* topic and payload bytes, to the stream of the first listed identifier
\* that is registered, or returns to the read loop when there is none; each
\* return of a drain carries the loop on in the same way.
C18_PublishInAnyState ==
  [][ ( \/ ev'.op = "forward_drain"
        \/ (ev'.op = "publish" /\ DecodePublish(ev'.data).ok) ) =>
      /\ ev'.op = "publish" => message_count' = message_count + 1
      /\ LET c == ev'.c
             list == ListOf(subscriptions, ev'.topic)
             idx == IF ev'.op = "publish" THEN 0 ELSE loc[c].idx
             reg == RegisteredAfter(list, idx, clients)
         IN /\ ~ev'.closed
            /\ clients' = clients /\ subscriptions' = subscriptions
            /\ ForwardedIntact(ev')
            /\ IF reg = {}
                 THEN ev'.w = <<>> /\ pc'[c] = "read"
                 ELSE /\ Len(ev'.w) = 1
                      /\ \E j \in reg :
                           /\ \A k \in reg : j <= k
                           /\ ev'.w[1].to = clients[list[j]]
                      /\ pc'[c] = "fan_drain"
    ]_vars

\* C18 witness: the PUBLISH of a session that is not registered has been
\* counted and written to the registered subscriber of its topic, and now
\* a second time for a second entry of the list.
C18_Witness ==
  /\ ev.op = "forward_drain"
  /\ ev.c \notin DOMAIN clients
  /\ message_count >= 1
  /\ Len(ev.w) = 1
  /\ ev.w[1].to.id # ev.c
  /\ ev.w[1].to.id \in DOMAIN clients
  /\ Len(fan[ev.c].got) = 2

\* the list indices the loop of forward_message has passed in the PUBLISH
\* step e of handler e.c: all of them when it returned, else those before
\* the one it wrote to
PassedInPublishStep(e) ==
  LET list == ListOf(subscriptions, e.topic)
  IN IF e.done THEN 1..Len(list) ELSE 1..(loc[e.c].idx - 1)

\* C19: there is no state in which a session whose CONNACK has been written
\* (its handler is at the drain of the CONNACK) is passed over as
\* unregistered by the loop of another session's PUBLISH to a topic under
\* which it is listed.
C19_RegisteredBeforeConnack ==
  \A d \in Ids :
    (pc[d] = "connect_drain" /\ ev.op = "publish" /\ ev.decoded /\ ev.c # d)
    => \A k \in PassedInPublishStep(ev) :
         ListOf(subscriptions, ev.topic)[k] = d => d \in DOMAIN clients

\* C20: a SUBACK is written only for a SUBSCRIBE whose topic filter decodes,
\* and a PUBLISH handled by another session while a registered session's
\* SUBACK has been written (its handler is at the drain of the SUBACK) has,
\* when its fan-out returns, been written to that session if it was
\* published to the topic of the filter.
C20_SubackMeansSubscribed ==
  /\ (ev.op = "subscribe" /\ ev.w # <<>>) => DecodeSubscribeTopic(ev.data).ok
  /\ \A d \in Ids :
       ( /\ pc[d] = "subscribe_drain"
         /\ d \in DOMAIN clients
         /\ DecodeSubscribeTopic(loc[d].data).ok
         /\ ev.op = "publish" /\ ev.decoded /\ ev.done /\ ev.c # d
         /\ ev.topic = DecodeSubscribeTopic(loc[d].data).topic )
       => Contains(ev.fan.got, clients[d])

\* the identifiers that lost an entry of the topic's list between the start
\* of fan-out f and now: only the finally block of their session removes one
CleanedUpDuring(f, topic) ==
  {d \in Ids : Occurrences(ListOf(subscriptions, topic), d)
                 < Occurrences(f.list0, d)}

\* C21: when the fan-out of a PUBLISH returns and a session listed under the
\* topic at publish time was cleaned up in between, every other session that
\* is registered as it was at publish time, with as many entries in the list
\* now as then, has been written the PUBLISH exactly once per entry.
C21_CleanupDuringFanoutSkipsNobody ==
  (ev.done /\ CleanedUpDuring(ev.fan, ev.topic) # {}) =>
    \A wr \in ev.fan.reg0 :
      ( /\ wr.id \notin CleanedUpDuring(ev.fan, ev.topic)
        /\ StillRegistered(wr)
        /\ Occurrences(ListOf(subscriptions, ev.topic), wr.id)
             = Occurrences(ev.fan.list0, wr.id) )
      => Occurrences(ev.fan.got, wr) = Occurrences(ev.fan.list0, wr.id)

\* C22: every PUBLISH is written to the stream that self.clients holds, at
\* the write, under an identifier listed under the topic, and that stream
\* belongs to a connection whose finally block has not run: a fan-out that
\* goes on after a subscriber's cleanup does not write to the stream that
\* cleanup closed.
C22_WriteOnlyToRegisteredNow ==
  \A i \in 1..Len(ev.w) :
    PacketType(ev.w[i].pkt) = PUBLISH =>
      LET to == ev.w[i].to
      IN /\ to.id \in DOMAIN clients
         /\ clients[to.id] = to
         /\ gen[to.id] = to.g
         /\ pc[to.id] # "closed"
         /\ Contains(ListOf(subscriptions, ev.topic), to.id)

\* C22 witness: a fan-out has resumed and written a PUBLISH after a session
\* that was registered and listed under the topic when it started was
\* cleaned up.
C22_Witness ==
  /\ ev.op = "forward_drain"
  /\ Len(ev.w) = 1
  /\ \E wr \in fan[ev.c].reg0 :
       /\ Contains(fan[ev.c].list0, wr.id)
       /\ ~StreamOpen(wr)

\* writer wr was registered when fan-out f of a PUBLISH to topic started and
\* still is, with the entries it had in the list then and no other
StableSubscriber(f, topic, wr) ==
  /\ wr \in f.reg0
  /\ StillRegistered(wr)
  /\ Occurrences(ListOf(subscriptions, topic), wr.id)
       = Occurrences(f.list0, wr.id)

\* every entry of x in list comes before every entry of y
ListedBefore(list, x, y) ==
  \A i \in 1..Len(list) : \A k \in 1..Len(list) :
    (list[i] = x /\ list[k] = y) => i < k

C24_NextPacketAfterFanout ==
  [][ \A c \in Ids :
        /\ (ev'.c = c /\ (IsReadStep(ev') \/ ev'.op = "eof")) =>
             (pc[c] = "read" /\ ~fan[c].running)
        /\ (ev'.c = c /\ ev'.op = "publish") =>
             \A i \in 1..Len(ev'.w) :
               ev'.w[i].pkt = PublishPacket(ev'.topic, ev'.message)
        /\ fan[c].running =>
             /\ ev'.c = c =>
                  /\ ev'.op = "forward_drain"
                  /\ ev'.data = loc[c].data
                  /\ \A i \in 1..Len(ev'.w) :
                       ev'.w[i].pkt = PublishPacket(loc[c].topic, loc[c].message)
                  /\ pc'[c] = "fan_drain" => (loc'[c].data = loc[c].data)
             /\ ev'.c # c =>
                  (pc'[c] = pc[c] /\ loc'[c] = loc[c] /\ fan'[c] = fan[c])
    ]_vars

\* C24 witness: the second PUBLISH of a connection, the only one that
\* publishes, is written to a stream that an earlier PUBLISH was written to.
C24_Witness ==
  /\ ev.op = "publish"
  /\ ev.c = IdOrder[2] /\ gen[ev.c] = 1
  /\ message_count = 2
  /\ Len(ev.w) = 1
  /\ ev.w[1].to \in failed

\* C25: a step that takes an identifier out of self.clients, or changes the
\* stream registered under it, is the finally block of that identifier's own
\* handler; every other step (a packet of another session, a drain that
\* raises, another session's cleanup) leaves the entry as it was.
C25_OnlyOwnCleanupUnregisters ==
  [][ \A d \in DOMAIN clients :
        (d \notin DOMAIN clients' \/ clients'[d] # clients[d]) =>
          (ev'.c = d /\ ev'.closed /\ pc'[d] = "closed")
    ]_vars

\* C25 witness: the drain of a PUBLISH forwarded from another session to a
\* registered session has raised, and that session is still registered and
\* waiting for its next packet.
C25_Witness ==
  /\ ev.op = "forward_drain" /\ ~ev.drain_ok /\ ev.done
  /\ Len(ev.fan.got) >= 1
  /\ LET wr == ev.fan.got[Len(ev.fan.got)]
     IN /\ wr.id # ev.c
        /\ StillRegistered(wr)
        /\ pc[wr.id] = "read"

\* C26: a step after which a list of self.subscriptions holds an identifier
\* more often than before is the return of the SUBACK drain of a SUBSCRIBE
\* read by that identifier's handler, for that topic, and adds one entry; a
\* step after which it holds it less often is the finally block of that
\* identifier's handler; and a step that handles CONNECT, PUBLISH, PINGREQ,
\* an unsupported packet or the return of one of their drains, without
\* ending the handler, and an accept, leave self.subscriptions as it was.
C26_DirectoryChangesOnlyByOwner ==
  [][ /\ \A t \in (DOMAIN subscriptions) \cup (DOMAIN subscriptions') :
           \A d \in Ids :
             LET before == Occurrences(ListOf(subscriptions, t), d)
                 after == Occurrences(ListOf(subscriptions', t), d)
             IN /\ after > before =>
                     /\ ev'.c = d
                     /\ ev'.op = "subscribe_drain" /\ ev'.drain_ok /\ ev'.decoded
                     /\ ev'.topic = t
                     /\ after = before + 1
                /\ after < before => (ev'.c = d /\ ev'.closed)
      /\ ( /\ ev'.op \in {"accept", "connect", "connect_drain", "publish",
                          "forward_drain", "pingreq", "ping_drain", "other"}
           /\ ~ev'.closed )
         => subscriptions' = subscriptions
    ]_vars

\* C26 witness: the drain of a PUBLISH forwarded from another session to a
\* listed session has raised and the fan-out has returned, with that session
\* still in the list of the topic.
C26_Witness ==
  /\ ev.op = "forward_drain" /\ ~ev.drain_ok /\ ev.done
  /\ Len(ev.fan.got) >= 1
  /\ ev.fan.got[Len(ev.fan.got)].id # ev.c
  /\ Contains(ListOf(subscriptions, ev.topic), ev.fan.got[Len(ev.fan.got)].id)
  /\ ~Contains(ListOf(subscriptions, ev.topic), ev.c)

\* the body of a PUBLISH holds a topic length and the bytes it takes as the
\* topic are UTF-8
TopicDecodes(data) ==
  /\ Len(data) >= 2
  /\ Utf8Decode(Slice(data, 2, 2 + Unpack(Slice(data, 0, 2)))).ok

\* C27: self.message_count never decreases; the step that reads a PUBLISH
\* whose topic decodes adds exactly one to it, whatever the lists hold; and
\* every other step (any other packet, a PUBLISH that does not decode, a
\* drain that returns or raises, an accept, a cleanup) leaves it as it was.
C27_CounterCountsDecodedPublishes ==
  [][ /\ message_count' >= message_count
      /\ IF ev'.op = "publish" /\ TopicDecodes(ev'.data)
           THEN message_count' = message_count + 1
           ELSE message_count' = message_count
    ]_vars

\* C27 witness: a PUBLISH has been counted once, its only delivery has
\* failed and the fan-out has returned.
C27_Witness ==
  /\ ev.op = "forward_drain" /\ ~ev.drain_ok /\ ev.done
  /\ Len(ev.fan.got) = 1
  /\ message_count = 1

\* C28: every PUBLISH is written to a stream whose connection has itself
\* sent a SUBSCRIBE for the topic of that PUBLISH.
C28_PublishOnlyOnOwnSubscriptions ==
  \A i \in 1..Len(ev.w) :
    PacketType(ev.w[i].pkt) = PUBLISH =>
      /\ gen[ev.w[i].to.id] = ev.w[i].to.g
      /\ ev.topic \in subd[ev.w[i].to.id]

\* the topic length declared at offset at of a body reaches past its end
TopicLengthOverruns(data, at) ==
  /\ Len(data) >= at + 2
  /\ at + 2 + Unpack(Slice(data, at, at + 2)) > Len(data)

\* C29: the step that decodes a PUBLISH or SUBSCRIBE body whose declared
\* topic length reaches past the end of the body closes the session, writes
\* no PUBLISH and stores nothing, and no fan-out is ever carried on for such
\* a body.
C29_TruncatedTopicRejected ==
  /\ (IsPublishStep(ev) /\ TopicLengthOverruns(ev.data, 0)) =>
       (ev.op = "publish" /\ ev.closed /\ ~ev.decoded /\ ev.w = <<>>)
  /\ (ev.op = "subscribe_drain" /\ ev.drain_ok
        /\ TopicLengthOverruns(ev.data, 2)) =>
       (ev.closed /\ ~ev.decoded)

\* C30: the first byte of every packet written is 0x20, 0x90, 0x30 or 0xD0;
\* the steps that handle a PUBLISH (its read and the drain returns of its
\* fan-out) write nothing but packets whose first byte is 0x30, whatever
\* flag bits the inbound header carried; and a step that ends a handler
\* writes nothing.
C30_OnlyFourPacketKinds ==
  /\ \A i \in 1..Len(ev.w) :
       /\ ev.w[i].pkt[1] \in {32, 144, 48, 208}
       /\ IsPublishStep(ev) => ev.w[i].pkt[1] = 48
       /\ PacketType(ev.w[i].pkt) = PUBLISH => IsPublishStep(ev)
  /\ ev.closed => ev.w = <<>>

\* C30 witness: a PUBLISH whose header carries the flag bits 1101 has been
\* forwarded to a subscriber.
C30_Witness ==
  /\ ev.op = "publish"
  /\ ev.hdr[1] = 61
  /\ Len(ev.w) = 1
  /\ ev.w[1].pkt[1] = 48

C32_OthersRunDuringSuspendedFanout ==
  \A c \in Ids :
    pc[c] = "fan_drain" =>
      /\ (naccepts < Busy.maxAccepts /\ \E d \in Ids : pc[d] = "closed") =>
           \E d \in Ids : ENABLED Accept(d, Busy)
      /\ \A d \in Ids \ {c} :
           /\ pc[d] = "read" => ENABLED ReadEof(d, Busy)
           /\ (pc[d] = "read" /\ npackets < Busy.maxPackets) =>
                /\ ENABLED HandleConnect(d, Busy)
                /\ ENABLED HandleSubscribe(d, Busy)
                /\ ENABLED HandlePingreq(d, Busy)
                /\ ENABLED HandlePublish(d, Busy)
           /\ pc[d] = "connect_drain" => ENABLED ConnectDrain(d, Busy)
           /\ pc[d] = "subscribe_drain" => ENABLED SubscribeDrain(d, Busy)
           /\ pc[d] = "ping_drain" => ENABLED PingDrain(d, Busy)
           /\ pc[d] = "fan_drain" => ENABLED ForwardDrain(d, Busy)

\* C32 witness: while the fan-out of one session is suspended at the drain
\* of its write to a subscriber, the PUBLISH of another session, accepted
\* third, has been handled and written to that same subscriber.
C32_Witness ==
  \E c \in Ids :
    /\ pc[c] = "fan_drain"
    /\ Len(fan[c].got) = 1
    /\ ev.op = "publish" /\ ev.c # c /\ ev.c = IdOrder[3]
    /\ Len(ev.w) = 1
    /\ ev.w[1].to = fan[c].got[1]
    /\ ev.w[1].to.id # ev.c

\* C33: the step that reads a packet of a type other than CONNECT, PUBLISH,
\* SUBSCRIBE and PINGREQ reads the whole declared body, writes nothing,
\* leaves self.clients, self.subscriptions and self.message_count as they
\* were and leaves the handler open at its read.
C33_UnsupportedPacketIgnored ==
  [][ ev'.op = "other" =>
        /\ Len(ev'.data) = RemainingLength(ev'.hdr)
        /\ ev'.w = <<>>
        /\ ~ev'.closed
        /\ pc'[ev'.c] = "read"
        /\ clients' = clients
        /\ subscriptions' = subscriptions
        /\ message_count' = message_count
    ]_vars

(***************************************************************************)
(* The buzzer alerter.  on_message runs on the MQTT network thread, one    *)
(* message at a time; every activation starts a threading.Timer thread     *)
(* that runs _turn_off_and_start_cooldown.  The threads interleave at      *)
(* every access to a global.  Time is counted in tenths of a second.       *)
(***************************************************************************)
MaxBuzzerMessages == 3
MaxBuzzerTicks == 2

REST_PERIOD_SECONDS == 7 * 60
RestTicks == REST_PERIOD_SECONDS * 10

\* duration_sec=4.7
DurationTicks == 47

\* --threshold, default 75.0
Threshold == 75

\* --duty_cycle, default 0.2, in percent
DutyCycle == 20

\* payload.get('pm10_atm'): absent, below the threshold, at the threshold
Pm10Values == {None, Threshold - 1, Threshold}

Later(a, b) == IF a >= b THEN a ELSE b

Idle == [pc |-> "idle", pm10 |-> None]

\* the commands published once this one was handed to mqtt_client.publish:
\* nothing is published while the client is not connected
send_buzzer_command(duty_cycle, k) ==
  IF ~connected
    THEN published
    ELSE Append(published, [duty_cycle |-> duty_cycle, of |-> k])

\* on_message up to "if alarm_active: return"
OnMessage(pm10) ==
  /\ callback.pc = "idle"
  /\ nmessages < MaxBuzzerMessages
  /\ nmessages' = nmessages + 1
  /\ callback' = IF pm10 = None \/ alarm_active
                   THEN Idle
                   ELSE [pc |-> "cooldown", pm10 |-> pm10]
  /\ UNCHANGED <<alarm_active, pending_off_timer, last_triggered_time, clock,
                 connected, activations, published, nticks>>
  /\ UNCHANGED <<brokerVars, collectorVars>>

\* now = datetime.now(); in_cooldown = ...; if pm10_value >= args.threshold
CheckCooldown ==
  /\ callback.pc = "cooldown"
  /\ LET now == clock
         in_cooldown == /\ last_triggered_time # None
                        /\ now - last_triggered_time < RestTicks
     IN callback' = IF in_cooldown \/ ~(callback.pm10 >= Threshold)
                      THEN Idle
                      ELSE [callback EXCEPT !.pc = "trigger"]
  /\ UNCHANGED <<alarm_active, pending_off_timer, last_triggered_time, clock,
                 connected, activations, published, nmessages, nticks>>
  /\ UNCHANGED <<brokerVars, collectorVars>>

\* trigger_buzzer_for: if alarm_active: return
TriggerCheck ==
  /\ callback.pc = "trigger"
  /\ callback' = IF alarm_active THEN Idle ELSE [callback EXCEPT !.pc = "activate"]
  /\ UNCHANGED <<alarm_active, pending_off_timer, last_triggered_time, clock,
                 connected, activations, published, nmessages, nticks>>
  /\ UNCHANGED <<brokerVars, collectorVars>>

\* alarm_active = True; send_buzzer_command(duty_cycle, period, command_topic)
Activate ==
  /\ callback.pc = "activate"
  /\ alarm_active' = TRUE
  /\ published' = send_buzzer_command(DutyCycle, Len(activations) + 1)
  /\ activations' = Append(activations,
                           [at |-> clock, timer |-> "unstarted", due |-> None,
                            off_at |-> None, off_published |-> FALSE])
  /\ callback' = [callback EXCEPT !.pc = "start_timer"]
  /\ UNCHANGED <<pending_off_timer, last_triggered_time, clock, connected,
                 nmessages, nticks>>
  /\ UNCHANGED <<brokerVars, collectorVars>>

\* pending_off_timer = threading.Timer(duration_sec, ...); .start()
StartTimer ==
  /\ callback.pc = "start_timer"
  /\ LET k == Len(activations)
     IN /\ activations' = [activations EXCEPT ![k].timer = "waiting",
                                              ![k].due = clock + DurationTicks]
        /\ pending_off_timer' = k
  /\ callback' = Idle
  /\ UNCHANGED <<alarm_active, last_triggered_time, clock, connected,
                 published, nmessages, nticks>>
  /\ UNCHANGED <<brokerVars, collectorVars>>

\* the Timer thread wakes no earlier than duration_sec after its start and
\* runs send_buzzer_command(0.0, period, command_topic)
TimerFires(k) ==
  /\ k \in DOMAIN activations
  /\ activations[k].timer = "waiting"
  /\ LET now == Later(clock, activations[k].due)
     IN /\ clock' = now
        /\ published' = send_buzzer_command(0, k)
        /\ activations' = [activations EXCEPT ![k].timer = "off_sent",
                                              ![k].off_at = now,
                                              ![k].off_published = connected]
  /\ UNCHANGED <<alarm_active, pending_off_timer, last_triggered_time,
                 connected, callback, nmessages, nticks>>
  /\ UNCHANGED <<brokerVars, collectorVars>>

\* alarm_active = False; pending_off_timer = None
TimerClears(k) ==
  /\ k \in DOMAIN activations
  /\ activations[k].timer = "off_sent"
  /\ alarm_active' = FALSE
  /\ pending_off_timer' = 0
  /\ activations' = [activations EXCEPT ![k].timer = "cleared"]
  /\ UNCHANGED <<last_triggered_time, clock, connected, callback, published,
                 nmessages, nticks>>
  /\ UNCHANGED <<brokerVars, collectorVars>>

\* last_triggered_time = datetime.now()
TimerCooldown(k) ==
  /\ k \in DOMAIN activations
  /\ activations[k].timer = "cleared"
  /\ last_triggered_time' = clock
  /\ activations' = [activations EXCEPT ![k].timer = "done"]
  /\ UNCHANGED <<alarm_active, pending_off_timer, clock, connected, callback,
                 published, nmessages, nticks>>
  /\ UNCHANGED <<brokerVars, collectorVars>>

\* time passes: a rest period goes by
Tick ==
  /\ nticks < MaxBuzzerTicks
  /\ nticks' = nticks + 1
  /\ clock' = clock + RestTicks
  /\ UNCHANGED <<alarm_active, pending_off_timer, last_triggered_time,
                 connected, callback, activations, published, nmessages>>
  /\ UNCHANGED <<brokerVars, collectorVars>>

\* the connection to the broker drops: is_connected() turns False
ConnectionLost ==
  /\ connected
  /\ connected' = FALSE
  /\ UNCHANGED <<alarm_active, pending_off_timer, last_triggered_time, clock,
                 callback, activations, published, nmessages, nticks>>
  /\ UNCHANGED <<brokerVars, collectorVars>>

\* the network loop started by loop_start() reconnects
Reconnected ==
  /\ ~connected
  /\ connected' = TRUE
  /\ UNCHANGED <<alarm_active, pending_off_timer, last_triggered_time, clock,
                 callback, activations, published, nmessages, nticks>>
  /\ UNCHANGED <<brokerVars, collectorVars>>

NextBuzzer ==
  \/ \E pm10 \in Pm10Values : OnMessage(pm10)
  \/ CheckCooldown
  \/ TriggerCheck
  \/ Activate
  \/ StartTimer
  \/ \E k \in 1..MaxBuzzerMessages : TimerFires(k)
  \/ \E k \in 1..MaxBuzzerMessages : TimerClears(k)
  \/ \E k \in 1..MaxBuzzerMessages : TimerCooldown(k)
  \/ Tick
  \/ ConnectionLost
  \/ Reconnected

\* a callback that was entered returns, and a started Timer thread runs to
\* its end; messages, the passing of time and the connection are not forced
FairBuzzer ==
  /\ WF_vars(CheckCooldown)
  /\ WF_vars(TriggerCheck)
  /\ WF_vars(Activate)
  /\ WF_vars(StartTimer)
  /\ \A k \in 1..MaxBuzzerMessages :
       /\ WF_vars(TimerFires(k))
       /\ WF_vars(TimerClears(k))
       /\ WF_vars(TimerCooldown(k))

SpecBuzzer == Init /\ [][NextBuzzer]_vars /\ FairBuzzer

\* C34: of any two activations of the buzzer, the later one is triggered
\* after the earlier one's OFF was sent, and no sooner than
\* REST_PERIOD_SECONDS after that OFF.
C34_NoTriggerBeforeRestElapsed ==
  \A i \in DOMAIN activations : \A j \in DOMAIN activations :
    i < j =>
      /\ activations[i].off_at # None
      /\ activations[j].at - activations[i].off_at >= RestTicks

\* C35: every activation is eventually followed by its OFF command having
\* been published and alarm_active set back to False, and an ON command is
\* published only after the OFF commands of all earlier activations.
C35_ActivationFollowedByOff ==
  /\ \A k \in 1..MaxBuzzerMessages :
       (Len(activations) >= k)
         ~> (/\ Len(activations) >= k
             /\ activations[k].off_published
             /\ activations[k].timer \in {"cleared", "done"})
  /\ [](\A i \in DOMAIN published :
          published[i].duty_cycle # 0 =>
            \A k \in 1..(published[i].of - 1) :
              \E h \in 1..(i - 1) :
                published[h].duty_cycle = 0 /\ published[h].of = k)

(***************************************************************************)
(* The data collector.  on_message runs on the MQTT network thread and     *)
(* buffer_manager_thread on a thread of its own; each "with                *)
(* self.buffer_lock" block is one step, and the threads interleave between *)
(* the blocks.                                                             *)
(***************************************************************************)
MaxCollectorRecords == 3
MaxDumps == 3

BUFFER_DURATION == 300

\* what a message delivered to on_message holds: a JSON object with a
\* timestamp, a JSON object without one, a JSON array, a message of the
\* status topic, bytes that are not JSON
MessageKinds == {"reading", "bare", "array", "status", "garbage"}

\* the payloads on_message appends: a JSON array passes "'timestamp' in
\* payload" without an exception, as an object does
Appended(kind) == kind \in {"reading", "bare", "array"}

\* reversed(data_to_save)
Reversed(s) == [i \in 1..Len(s) |-> s[Len(s) + 1 - i]]

\* deque.extendleft(iterable): every element is pushed on the left in turn
RECURSIVE ExtendLeft(_, _)
ExtendLeft(buffer, iterable) ==
  IF iterable = <<>>
    THEN buffer
    ELSE ExtendLeft(<<Head(iterable)>> \o buffer, Tail(iterable))

\* with self.buffer_lock: self.data_buffer.extendleft(reversed(data_to_save))
PutBack(buffer, data_to_save) == ExtendLeft(buffer, Reversed(data_to_save))

\* on_message: a payload of the data topic is appended under the lock
OnRecord(kind) ==
  /\ nrecords < MaxCollectorRecords
  /\ IF Appended(kind)
       THEN /\ data_buffer' =
                 Append(data_buffer, [id |-> nrecords + 1, kind |-> kind])
            /\ nrecords' = nrecords + 1
       ELSE UNCHANGED <<data_buffer, nrecords>>
  /\ UNCHANGED <<file_counter, last_dump_time, manager, written, ndumps>>
  /\ UNCHANGED <<brokerVars, buzzerVars>>

\* one round of buffer_manager_thread up to the end of the first locked
\* block of dump_buffer_to_csv
ManagerRound(current_time) ==
  /\ manager.pc = "sleep"
  /\ ndumps < MaxDumps
  /\ IF current_time - last_dump_time >= BUFFER_DURATION
       THEN /\ ndumps' = ndumps + 1
            /\ IF data_buffer = <<>>
                 THEN /\ last_dump_time' = current_time
                      /\ file_counter' = 1
                      /\ UNCHANGED <<data_buffer, manager>>
                 ELSE /\ manager' = [pc |-> "name",
                                     current_time |-> current_time,
                                     data_to_save |-> data_buffer]
                      /\ data_buffer' = <<>>
                      /\ UNCHANGED <<last_dump_time, file_counter>>
       ELSE UNCHANGED <<data_buffer, file_counter, last_dump_time, manager,
                        ndumps>>
  /\ UNCHANGED <<written, nrecords>>
  /\ UNCHANGED <<brokerVars, buzzerVars>>

\* the file name: data_to_save[0]['timestamp'] raises KeyError on an object
\* without a timestamp, which is caught, and TypeError on an array, which
\* is not: it leaves dump_buffer_to_csv and ends the thread
DumpName ==
  /\ manager.pc = "name"
  /\ IF manager.data_to_save[1].kind = "array"
       THEN /\ manager' = [Sleeping EXCEPT !.pc = "dead"]
            /\ UNCHANGED file_counter
       ELSE /\ manager' = [manager EXCEPT !.pc = "write"]
            /\ file_counter' = file_counter + 1
  /\ UNCHANGED <<data_buffer, last_dump_time, written, nrecords, ndumps>>
  /\ UNCHANGED <<brokerVars, buzzerVars>>

\* the rows are written, or an exception (of open or write, or of row.get
\* on an array) puts data_to_save back; then the round of the manager ends
DumpWrite(ok) ==
  /\ manager.pc = "write"
  /\ IF ok /\ \A i \in DOMAIN manager.data_to_save :
                manager.data_to_save[i].kind # "array"
       THEN /\ written' = Append(written, manager.data_to_save)
            /\ UNCHANGED data_buffer
       ELSE /\ data_buffer' = PutBack(data_buffer, manager.data_to_save)
            /\ UNCHANGED written
  /\ last_dump_time' = manager.current_time
  /\ file_counter' = 1
  /\ manager' = Sleeping
  /\ UNCHANGED <<nrecords, ndumps>>
  /\ UNCHANGED <<brokerVars, buzzerVars>>

NextCollector ==
  \/ \E kind \in MessageKinds : OnRecord(kind)
  \/ \E current_time \in {last_dump_time + 1, last_dump_time + BUFFER_DURATION} :
       ManagerRound(current_time)
  \/ DumpName
  \/ \E ok \in BOOLEAN : DumpWrite(ok)

SpecCollector == Init /\ [][NextCollector]_vars

\* how often the record numbered id occurs in a sequence of records
RECURSIVE CountIn(_, _)
CountIn(records, id) ==
  IF records = <<>>
    THEN 0
    ELSE (IF Head(records).id = id THEN 1 ELSE 0) + CountIn(Tail(records), id)

RECURSIVE CountWritten(_, _)
CountWritten(files, id) ==
  IF files = <<>>
    THEN 0
    ELSE CountIn(Head(files), id) + CountWritten(Tail(files), id)

\* C36: every record on_message appended is in exactly one place: in the
\* buffer, in the data_to_save of the dump that is running, or in one file
\* a dump wrote; and the buffer holds its records in their order of arrival,
\* records put back after a failed write ahead of those that arrived since.
C36_RecordsNeitherLostNorDuplicated ==
  /\ \A id \in 1..nrecords :
       CountIn(data_buffer, id) + CountIn(manager.data_to_save, id)
         + CountWritten(written, id) = 1
  /\ \A i \in DOMAIN data_buffer : \A j \in DOMAIN data_buffer :
       i < j => data_buffer[i].id < data_buffer[j].id

====
